---- MODULE Spec2Model ----
(***************************************************************************)
(* A model of bhyze.py: the per-build hash collector with its pickle      *)
(* cache, the dependency-ordered diff summarizer (diffSummaryCmd) and the *)
(* line-level package analyzer (PackageDiff).                             *)
(*                                                                         *)
(* Text is modelled as a sequence of tokens; the token NL is the line     *)
(* break that str.splitlines() splits on.  Package names are the numbers  *)
(* 1..NumPkgs, hash tokens are strings.                                   *)
(***************************************************************************)
EXTENDS Integers, Sequences, FiniteSets, TLC

VARIABLES
  remote,     \* per build id: the build server's file system (stable during a run)
  cache,      \* CACHE_DIR: pickle file path -> [exists, data]
  writes,     \* history: number of completed pickle.dump calls per file path
  pc,         \* per process: position inside diffSummaryCmd
  pkgLimit,   \* per process: args.pkg_limit
  rhi,        \* per process: the reference HashInfo
  ihi,        \* per process: the inspect HashInfo
  out,        \* per process: what the run printed / the exception that ended it
  an          \* the arguments and result of a direct call (findDiffLine, PackageDiff, cache round trip)

vars == <<remote, cache, writes, pc, pkgLimit, rhi, ihi, out, an>>

-----------------------------------------------------------------------------
\* Bounds of the model

NumPkgs == 2
MaxLimit == 3
MaxDiffLen == 4
MaxBlock == 3
MaxSubLines == 2

\* Python's None for args.pkg_limit; negative limits are not modelled.
None == -1

Pkgs == 1 .. NumPkgs
Limits == {None} \cup (0 .. MaxLimit)

Min(a, b) == IF a < b THEN a ELSE b

\* s[ : n ] for n >= 0
Slice(s, n) == SubSeq(s, 1, Min(n, Len(s)))

EmptyMap == [x \in {} |-> x]

Put(m, k, v) == (k :> v) @@ m

NL == "\n"

-----------------------------------------------------------------------------
\* AbuildInfo and the cache file path

RefId == 1
InsId == 2
BuildIds == {RefId, InsId}

getAbuildInfo(buildId) ==
  [start |-> <<"start", buildId>>, submit |-> "submit", publish |-> "publish",
   buildId |-> buildId, project |-> "proj", platform |-> "plat",
   bs |-> <<"bs", buildId>>]

\* pickleFilepath with the limit left out of the file name
pickleFilepath_NoLimit(bi, limit) ==
  <<"/var/cache/bhyze", "id-", bi.buildId, "_limit-", None, ".pkl">>

\* f'id-{bi.buildId}_limit-{limit}.pkl' below CACHE_DIR
pickleFilepath(bi, limit) ==
  <<"/var/cache/bhyze", "id-", bi.buildId, "_limit-", limit, ".pkl">>

Paths == {pickleFilepath(getAbuildInfo(b), l) : b \in BuildIds, l \in Limits}

-----------------------------------------------------------------------------
\* HashInfo, pickle.dump and pickle.load

HashInfo(bi) ==
  [bi |-> bi, hashLogs |-> {}, pkgDepOrder |-> <<>>, buildhash |-> EmptyMap,
   populated |-> FALSE]

\* The pickle of a HashInfo: the class tag, then the dataclass fields in
\* declaration order; the buildhash defaultdict is written as its items.
pickleDumps(hi) ==
  <<"HashInfo", hi.bi, hi.hashLogs, hi.pkgDepOrder,
    {<<p, hi.buildhash[p]>> : p \in DOMAIN hi.buildhash}, hi.populated>>

pickleLoads(data) ==
  [bi |-> data[2], hashLogs |-> data[3], pkgDepOrder |-> data[4],
   buildhash |-> [p \in {it[1] : it \in data[5]} |->
                    (CHOOSE it \in data[5] : it[1] = p)[2]],
   populated |-> data[6]]

NoFile == [exists |-> FALSE, data |-> <<>>]

\* LoadHashInfo: [hi, err]
LoadHashInfo(files, bi, limit) ==
  LET f == files[pickleFilepath(bi, limit)] IN
  IF f.exists
  THEN IF f.data = <<>>
       THEN [hi |-> HashInfo(bi), err |-> "EOFError"]
       ELSE IF f.data[1] # "HashInfo" \/ pickleLoads(f.data).bi # bi
            THEN [hi |-> pickleLoads(f.data), err |-> "AssertionError"]
            ELSE [hi |-> pickleLoads(f.data), err |-> ""]
  ELSE [hi |-> HashInfo(bi), err |-> ""]

-----------------------------------------------------------------------------
\* The build server: remote commands

\* A hash log line: "buildhash now <hash> due to ..." or some other line
\* that still carries the grep marker.
LogLine(head, h, cause) == [head |-> head, hash |-> h, cause |-> cause]

\* test -d <buildhashLogBasePath>
checkPath(rem) == IF rem.dir THEN 0 ELSE 1

\* str.split('.')[0] of a file name given as its dot-separated parts
Stem(fname) == fname[1]

matchesMarker(line, htype) ==
  CASE htype = "content" -> line.cause = "contents"
    [] htype = "deps"    -> line.cause = "depSig"
    [] htype = "final"   -> line.head = "buildhash now"

RECURSIVE lastMatch(_, _, _)
lastMatch(log, htype, i) ==
  IF i = 0 THEN 0
  ELSE IF matchesMarker(log[i], htype) THEN i
  ELSE lastMatch(log, htype, i - 1)

\* The text of <pkg>.log; tac of a file that does not exist feeds grep nothing.
catLog(rem, pkg) == IF <<pkg, "log">> \in rem.ls THEN rem.log[pkg] ELSE <<>>

grepResult(log, i, broken) ==
  IF i = 0 \/ broken
  THEN [exit |-> 1, stdout |-> <<>>]
  ELSE [exit |-> 0, stdout |-> <<log[i]>>]

\* tac <pkg>.log | grep -m 1 <marker>: [exit, stdout]
\* rem.fail holds the lookups whose remote command exits nonzero for a reason
\* other than a missing marker (unreadable file, broken channel).
tacGrep(rem, pkg, htype) ==
  grepResult(catLog(rem, pkg), lastMatch(catLog(rem, pkg), htype, Len(catLog(rem, pkg))),
             <<pkg, htype>> \in rem.fail)

-----------------------------------------------------------------------------
\* HashInfo.populate*.  Each step takes and returns [hi, err]; err names the
\* exception that is propagating, and a step reached with one passes it on.

Ok(hi) == [hi |-> hi, err |-> ""]

populateHashLogsSet(st, rem) ==
  IF st.err # "" THEN st
  ELSE [st EXCEPT !.hi.hashLogs = {Stem(f) : f \in rem.ls}]

\* p.removesuffix( '(!)' ) of a token
removesuffix(tok) == tok.name

populatePkgBuildOrder(st, rem) ==
  IF st.err # "" THEN st
  ELSE IF ~rem.hasMakeLine THEN [st EXCEPT !.err = "RunCmdErr"]
  ELSE [st EXCEPT !.hi.pkgDepOrder =
          [i \in 1 .. Len(rem.makeLine) |-> removesuffix(rem.makeLine[i])]]

\* self.buildhash[ pkg ][ htype ] = v on the nested defaultdict
setHash(bh, pkg, htype, v) ==
  Put(bh, pkg, Put(IF pkg \in DOMAIN bh THEN bh[pkg] ELSE EmptyMap, htype, v))

\* storeHashType with every failed lookup downgraded to NA
storeHashType_AllTolerated(st, pkg, htype, r) ==
  IF r.exit # 0
  THEN [st EXCEPT !.hi.buildhash = setHash(@, pkg, htype, "NA")]
  ELSE IF r.stdout[1].head # "buildhash now"
       THEN [st EXCEPT !.err = "AssertionError"]
       ELSE [st EXCEPT !.hi.buildhash = setHash(@, pkg, htype, r.stdout[1].hash)]

\* lines 199-208, r being what runCmd saw
storeHashType(st, pkg, htype, r) ==
  IF r.exit # 0
  THEN IF htype # "deps"
       THEN [st EXCEPT !.err = "RunCmdErr"]
       ELSE [st EXCEPT !.hi.buildhash = setHash(@, pkg, htype, "NA")]
  ELSE IF r.stdout[1].head # "buildhash now"
       THEN [st EXCEPT !.err = "AssertionError"]
       ELSE [st EXCEPT !.hi.buildhash = setHash(@, pkg, htype, r.stdout[1].hash)]

populateHashType(st, rem, pkg, htype) ==
  IF st.err # "" THEN st
  ELSE storeHashType(st, pkg, htype, tacGrep(rem, pkg, htype))

\* the loop over buildhashTypes: content, deps, final
populateBuildHashForPkg(st, rem, pkg) ==
  IF st.err # "" \/ pkg \notin st.hi.hashLogs THEN st
  ELSE populateHashType(
         populateHashType(
           populateHashType(st, rem, pkg, "content"),
           rem, pkg, "deps"),
         rem, pkg, "final")

RECURSIVE populateFrom(_, _, _, _)
populateFrom(st, rem, pkgs, k) ==
  IF k > Len(pkgs) THEN st
  ELSE populateFrom(populateBuildHashForPkg(st, rem, pkgs[k]), rem, pkgs, k + 1)

populateBuildhashes(st, rem, limit) ==
  IF st.err # "" THEN st
  ELSE populateFrom(st, rem,
         Slice(st.hi.pkgDepOrder,
               IF limit = None THEN Len(st.hi.pkgDepOrder) ELSE limit), 1)

markPopulated(st) ==
  IF st.err # "" THEN st ELSE [st EXCEPT !.hi.populated = TRUE]

\* populateAll up to and including self.populated = True
populateAll(hi, rem, limit) ==
  markPopulated(
    populateBuildhashes(
      populatePkgBuildOrder(
        populateHashLogsSet(Ok(hi), rem), rem), rem, limit))

-----------------------------------------------------------------------------
\* diffSummaryCmd: the comparison loop

reasonVerbose(k) ==
  CASE k = "content" -> "package contents changed"
    [] k = "deps"    -> "depSig changed"
    [] k = "final"   -> "build setting/env changed"

\* d[ k ] on the inner defaultdict( str ): a missing key reads as ''
innerGet(bh, pkg, k) == IF k \in DOMAIN bh[pkg] THEN bh[pkg][k] ELSE ""

\* ... and is inserted by the read
innerTouch(bh, pkg, k) == IF k \in DOMAIN bh[pkg] THEN bh ELSE setHash(bh, pkg, k, "")

\* d[ pkg ] on the outer defaultdict( innerDict ): a missing key is inserted
outerTouch(bh, pkg) == IF pkg \in DOMAIN bh THEN bh ELSE Put(bh, pkg, EmptyMap)

touchBoth(acc, pkg, k) ==
  [acc EXCEPT !.ibuildhash = innerTouch(@, pkg, k),
              !.rbuildhash = innerTouch(@, pkg, k)]

\* classify with the deps hashes compared before the content hashes
classify_DepsFirst(acc, pkg) ==
  LET a1 == touchBoth(acc, pkg, "deps") IN
  IF innerGet(a1.ibuildhash, pkg, "deps") # innerGet(a1.rbuildhash, pkg, "deps")
  THEN [a1 EXCEPT !.displayList = Append(@, <<pkg, reasonVerbose("deps")>>)]
  ELSE LET a2 == touchBoth(a1, pkg, "content") IN
       IF innerGet(a2.ibuildhash, pkg, "content") # innerGet(a2.rbuildhash, pkg, "content")
       THEN [a2 EXCEPT !.displayList = Append(@, <<pkg, reasonVerbose("content")>>)]
       ELSE [a2 EXCEPT !.displayList = Append(@, <<pkg, reasonVerbose("final")>>),
                       !.err = "TypeError"]

\* lines 287-293: the package's final hashes differ
classify(acc, pkg) ==
  LET a1 == touchBoth(acc, pkg, "content") IN
  IF innerGet(a1.ibuildhash, pkg, "content") # innerGet(a1.rbuildhash, pkg, "content")
  THEN [a1 EXCEPT !.displayList = Append(@, <<pkg, reasonVerbose("content")>>)]
  ELSE LET a2 == touchBoth(a1, pkg, "deps") IN
       IF innerGet(a2.ibuildhash, pkg, "deps") # innerGet(a2.rbuildhash, pkg, "deps")
       THEN [a2 EXCEPT !.displayList = Append(@, <<pkg, reasonVerbose("deps")>>)]
       ELSE \* displayList[ pkg ] = 'final' raises TypeError: list indices must be integers
            [a2 EXCEPT !.displayList = Append(@, <<pkg, reasonVerbose("final")>>),
                       !.err = "TypeError"]

\* summaryStep without the membership test on the reference snapshot
summaryStep_NoRefTest(acc, pkg) ==
  IF pkg \notin DOMAIN acc.ibuildhash THEN acc
  ELSE LET a1 == [acc EXCEPT !.accounted = @ + 1,
                             !.ibuildhash = outerTouch(@, pkg),
                             !.rbuildhash = outerTouch(@, pkg)]
           a2 == touchBoth(a1, pkg, "final")
       IN IF innerGet(a2.ibuildhash, pkg, "final") = innerGet(a2.rbuildhash, pkg, "final")
          THEN [a2 EXCEPT !.matchCount = @ + 1]
          ELSE classify(a2, pkg)

\* one iteration of the loop at lines 274-293
summaryStep(acc, pkg) ==
  IF pkg \notin DOMAIN acc.ibuildhash THEN acc
  ELSE IF pkg \notin DOMAIN acc.rbuildhash THEN acc
  ELSE LET a1 == [acc EXCEPT !.accounted = @ + 1,
                             !.ibuildhash = outerTouch(@, pkg),
                             !.rbuildhash = outerTouch(@, pkg)]
           a2 == touchBoth(a1, pkg, "final")
       IN IF innerGet(a2.ibuildhash, pkg, "final") = innerGet(a2.rbuildhash, pkg, "final")
          THEN [a2 EXCEPT !.matchCount = @ + 1]
          ELSE classify(a2, pkg)

RECURSIVE summaryLoop(_, _, _)
summaryLoop(acc, pkgs, k) ==
  IF k > Len(pkgs) \/ acc.err # "" THEN acc
  ELSE summaryLoop(summaryStep(acc, pkgs[k]), pkgs, k + 1)

\* pkgLimit or len( ihi.pkgDepOrder )
iterLimitOf(limit, hi) ==
  IF limit = None \/ limit = 0 THEN Len(hi.pkgDepOrder) ELSE limit

\* lines 265-298: the loop and, when it ends normally, the four printed counts
summarize(r, i, limit) ==
  LET iterLimit == iterLimitOf(limit, i)
      acc == summaryLoop([accounted |-> 0, matchCount |-> 0, displayList |-> <<>>,
                          err |-> "", ibuildhash |-> i.buildhash,
                          rbuildhash |-> r.buildhash],
                         Slice(i.pkgDepOrder, iterLimit), 1)
  IN [err |-> acc.err, printed |-> acc.err = "",
      considered |-> iterLimit, accounted |-> acc.accounted,
      matching |-> acc.accounted - Len(acc.displayList),
      mismatched |-> Len(acc.displayList),
      matchCount |-> acc.matchCount, displayList |-> acc.displayList,
      ibuildhash |-> acc.ibuildhash, rbuildhash |-> acc.rbuildhash, cached |-> {}]

\* cached: the builds whose snapshot this run found populated in the cache
NoOut ==
  [err |-> "", printed |-> FALSE, considered |-> 0, accounted |-> 0, matching |-> 0,
   mismatched |-> 0, matchCount |-> 0, displayList |-> <<>>, cached |-> {}]

Raised(o, e) == [NoOut EXCEPT !.err = e, !.cached = o.cached]

-----------------------------------------------------------------------------
\* The remote states the runs start from

Rem(dir, ls, hasMakeLine, makeLine, log, fail) ==
  [dir |-> dir, ls |-> ls, hasMakeLine |-> hasMakeLine, makeLine |-> makeLine,
   log |-> log, fail |-> fail]

FilesOf(p) == {<<p, "log">>, <<p, "deps", "log">>}
AllFiles == UNION {FilesOf(p) : p \in Pkgs}

\* "'a4 make' packages: ..." tokens; forced stands for the '(!)' suffix
Identity == [i \in 1 .. NumPkgs |-> [name |-> i, forced |-> FALSE]]
Reversed == [i \in 1 .. NumPkgs |-> [name |-> NumPkgs + 1 - i, forced |-> TRUE]]
Short == SubSeq(Identity, 1, NumPkgs - 1)

\* A package's hash log: a content event, a depSig event and a last event,
\* each left out when its hash is "-".
PkgLog(c, d, f) ==
  (IF c = "-" THEN <<>> ELSE <<LogLine("buildhash now", c, "contents")>>)
  \o (IF d = "-" THEN <<>> ELSE <<LogLine("buildhash now", d, "depSig")>>)
  \o (IF f = "-" THEN <<>> ELSE <<LogLine("buildhash now", f, "none")>>)

BaseLogs == [p \in Pkgs |-> PkgLog("h1", "h1", "h1")]
Healthy == Rem(TRUE, AllFiles, TRUE, Identity, BaseLogs, {})

\* Builds that differ from the healthy one in the hashes of one package, in
\* the files listed and in the order line.
ListingVariants == {AllFiles} \cup {AllFiles \ FilesOf(q) : q \in Pkgs}

RefHashRemotes ==
  {Rem(TRUE, ls, TRUE, Identity, [BaseLogs EXCEPT ![f] = PkgLog("h1", d, "h1")], {}) :
     ls \in ListingVariants, f \in Pkgs, d \in {"h1", "-"}}

InsHashRemotes ==
  {Rem(TRUE, ls, TRUE, o, [BaseLogs EXCEPT ![t[1]] = PkgLog(t[2], t[3], t[4])], {}) :
     ls \in ListingVariants, o \in {Identity, Reversed},
     t \in Pkgs \X {"h1", "h2"} \X {"h1", "h2", "-"} \X {"h1", "h2"}}

\* Builds with one fault.
FaultyRemotes ==
  {Healthy,
   [Healthy EXCEPT !.dir = FALSE],
   [Healthy EXCEPT !.hasMakeLine = FALSE],
   [Healthy EXCEPT !.makeLine = Short],
   [Healthy EXCEPT !.makeLine = Reversed]}
  \cup {[Healthy EXCEPT !.ls = @ \ {<<q, "log">>}] : q \in Pkgs}
  \cup {[Healthy EXCEPT !.ls = @ \ FilesOf(q)] : q \in Pkgs}
  \cup {[Healthy EXCEPT !.log[q] = l] : q \in Pkgs,
          l \in {<<>>, PkgLog("-", "h1", "h1"), PkgLog("h1", "-", "h1"),
                 PkgLog("h1", "h1", "-"),
                 <<LogLine("rebuilt", "h1", "contents")>> \o PkgLog("-", "h1", "h1"),
                 PkgLog("h1", "-", "h1") \o <<LogLine("skipped", "h1", "depSig")>>}}
  \cup {[Healthy EXCEPT !.fail = {<<q, t>>}] : q \in Pkgs, t \in {"content", "deps", "final"}}

RemotePairs ==
  {[b \in BuildIds |-> IF b = RefId THEN r ELSE i] :
     r \in RefHashRemotes, i \in InsHashRemotes}
  \cup {[b \in BuildIds |-> IF b = RefId THEN r ELSE i] :
     r \in FaultyRemotes, i \in FaultyRemotes}

ConcRemotePairs ==
  {[b \in BuildIds |-> IF b = RefId THEN Healthy ELSE i] :
     i \in {Healthy, [Healthy EXCEPT !.fail = {<<NumPkgs, "final">>}]}}

-----------------------------------------------------------------------------
\* diffSummaryCmd as a process

Procs == DOMAIN pc

rbi == getAbuildInfo(RefId)
ibi == getAbuildInfo(InsId)

InitWith(remotes, procs, limits) ==
  /\ remote \in remotes
  /\ cache = [f \in Paths |-> NoFile]
  /\ writes = [f \in Paths |-> 0]
  /\ pc = [p \in procs |-> "idle"]
  /\ pkgLimit \in [procs -> limits]
  /\ rhi = [p \in procs |-> HashInfo(rbi)]
  /\ ihi = [p \in procs |-> HashInfo(ibi)]
  /\ out = [p \in procs |-> NoOut]
  /\ an = <<>>

Init == InitWith(RemotePairs, {1}, Limits)

InitConc == InitWith(ConcRemotePairs, {1, 2}, {None, 1})

Crash(p, e) ==
  /\ pc' = [pc EXCEPT ![p] = "crashed"]
  /\ out' = [out EXCEPT ![p] = Raised(out[p], e)]

Goto(p, where) ==
  /\ pc' = [pc EXCEPT ![p] = where]
  /\ UNCHANGED out

\* A run of "diff <ref> <ins> summary -l <pkgLimit>" begins: lines 250-253
Start(p) ==
  /\ pc[p] \in {"idle", "done", "crashed"}
  /\ rhi' = [rhi EXCEPT ![p] = HashInfo(rbi)]
  /\ ihi' = [ihi EXCEPT ![p] = HashInfo(ibi)]
  /\ IF rbi.platform = ibi.platform
     THEN pc' = [pc EXCEPT ![p] = "loadRef"] /\ out' = [out EXCEPT ![p] = NoOut]
     ELSE Crash(p, "AssertionError")
  /\ UNCHANGED <<remote, cache, writes, pkgLimit, an>>

\* line 257
LoadRef(p) ==
  /\ pc[p] = "loadRef"
  /\ LET r == LoadHashInfo(cache, rbi, pkgLimit[p]) IN
       IF r.err # ""
       THEN Crash(p, r.err) /\ UNCHANGED rhi
       ELSE /\ pc' = [pc EXCEPT ![p] = "loadIns"]
            /\ out' = [out EXCEPT ![p].cached = IF r.hi.populated THEN {RefId} ELSE {}]
            /\ rhi' = [rhi EXCEPT ![p] = r.hi]
  /\ UNCHANGED <<remote, cache, writes, pkgLimit, ihi, an>>

\* line 258
LoadIns(p) ==
  /\ pc[p] = "loadIns"
  /\ LET r == LoadHashInfo(cache, ibi, pkgLimit[p]) IN
       IF r.err # ""
       THEN Crash(p, r.err) /\ UNCHANGED ihi
       ELSE /\ pc' = [pc EXCEPT ![p] = "collectRef"]
            /\ out' = [out EXCEPT ![p].cached = IF r.hi.populated THEN @ \cup {InsId} ELSE @]
            /\ ihi' = [ihi EXCEPT ![p] = r.hi]
  /\ UNCHANGED <<remote, cache, writes, pkgLimit, rhi, an>>

\* open( pickleFilepath( bi, pkgLimit ), 'wb' ): the file exists and is empty
openWb(files, path) == [files EXCEPT ![path] = [exists |-> TRUE, data |-> <<>>]]

\* pickle.dump( self, f ) and the close that ends the with block
dumpTo(files, path, hi) ==
  [files EXCEPT ![path] = [exists |-> TRUE, data |-> pickleDumps(hi)]]

\* lines 261-263 for one build, up to the open() inside HashInfo.pickle:
\* [hi, err, opened]
opening(st) == [hi |-> st.hi, err |-> st.err, opened |-> st.err = ""]

collect(hi, rem, limit) ==
  IF checkPath(rem) # 0 THEN [hi |-> hi, err |-> "RunCmdErr", opened |-> FALSE]
  ELSE IF hi.populated THEN [hi |-> hi, err |-> "", opened |-> FALSE]
  ELSE opening(populateAll(hi, rem, limit))

\* what a collect result does to the process and to the cache directory
Collected(p, r, dump, skip) ==
  /\ IF r.err # "" THEN Crash(p, r.err)
     ELSE Goto(p, IF r.opened THEN dump ELSE skip)
  /\ cache' = IF r.opened THEN openWb(cache, pickleFilepath(r.hi.bi, pkgLimit[p]))
              ELSE cache

CollectRef(p) ==
  /\ pc[p] = "collectRef"
  /\ rhi' = [rhi EXCEPT ![p] = collect(rhi[p], remote[RefId], pkgLimit[p]).hi]
  /\ Collected(p, collect(rhi[p], remote[RefId], pkgLimit[p]), "dumpRef", "collectIns")
  /\ UNCHANGED <<remote, writes, pkgLimit, ihi, an>>

DumpRef(p) ==
  /\ pc[p] = "dumpRef"
  /\ cache' = dumpTo(cache, pickleFilepath(rhi[p].bi, pkgLimit[p]), rhi[p])
  /\ writes' = [writes EXCEPT ![pickleFilepath(rhi[p].bi, pkgLimit[p])] = @ + 1]
  /\ Goto(p, "collectIns")
  /\ UNCHANGED <<remote, pkgLimit, rhi, ihi, an>>

CollectIns(p) ==
  /\ pc[p] = "collectIns"
  /\ ihi' = [ihi EXCEPT ![p] = collect(ihi[p], remote[InsId], pkgLimit[p]).hi]
  /\ Collected(p, collect(ihi[p], remote[InsId], pkgLimit[p]), "dumpIns", "summarize")
  /\ UNCHANGED <<remote, writes, pkgLimit, rhi, an>>

DumpIns(p) ==
  /\ pc[p] = "dumpIns"
  /\ cache' = dumpTo(cache, pickleFilepath(ihi[p].bi, pkgLimit[p]), ihi[p])
  /\ writes' = [writes EXCEPT ![pickleFilepath(ihi[p].bi, pkgLimit[p])] = @ + 1]
  /\ Goto(p, "summarize")
  /\ UNCHANGED <<remote, pkgLimit, rhi, ihi, an>>

\* lines 265-298
Summarize(p) ==
  /\ pc[p] = "summarize"
  /\ LET s == summarize(rhi[p], ihi[p], pkgLimit[p]) IN
       /\ rhi' = [rhi EXCEPT ![p].buildhash = s.rbuildhash]
       /\ ihi' = [ihi EXCEPT ![p].buildhash = s.ibuildhash]
       /\ out' = [out EXCEPT ![p] = [[f \in DOMAIN NoOut |-> s[f]] EXCEPT !.cached = out[p].cached]]
       /\ pc' = [pc EXCEPT ![p] = IF s.err = "" THEN "done" ELSE "crashed"]
  /\ UNCHANGED <<remote, cache, writes, pkgLimit, an>>

SummaryNext ==
  \/ \E p \in Procs : Start(p)
  \/ \E p \in Procs : LoadRef(p)
  \/ \E p \in Procs : LoadIns(p)
  \/ \E p \in Procs : CollectRef(p)
  \/ \E p \in Procs : DumpRef(p)
  \/ \E p \in Procs : CollectIns(p)
  \/ \E p \in Procs : DumpIns(p)
  \/ \E p \in Procs : Summarize(p)

Spec == Init /\ [][SummaryNext]_vars

SpecConc == InitConc /\ [][SummaryNext]_vars

-----------------------------------------------------------------------------
\* Text: str.splitlines, str.join, findDiffLine

RECURSIVE splitFrom(_, _, _, _)
splitFrom(t, k, cur, acc) ==
  IF k > Len(t) THEN (IF cur = <<>> THEN acc ELSE Append(acc, cur))
  ELSE IF t[k] = NL THEN splitFrom(t, k + 1, <<>>, Append(acc, cur))
  ELSE splitFrom(t, k + 1, Append(cur, t[k]), acc)

\* text.splitlines(): a line break ends a line, and a text that ends in one
\* has no empty last line
splitlines(t) == splitFrom(t, 1, <<>>, <<>>)

RECURSIVE join(_)
\* '\n'.join( lines )
join(lines) ==
  IF lines = <<>> THEN <<>>
  ELSE IF Len(lines) = 1 THEN lines[1]
  ELSE lines[1] \o <<NL>> \o join(Tail(lines))

\* ( None, None )
NoDiff == [none |-> TRUE, lhs |-> <<>>, rhs |-> <<>>]

RECURSIVE firstDiff(_, _, _, _)
\* the loop at lines 325-327: the first i in range( iterLimit ) at which the
\* lines differ (counted from 1), or 0
firstDiff(a, b, i, iterLimit) ==
  IF i > iterLimit THEN 0
  ELSE IF a[i] # b[i] THEN i
  ELSE firstDiff(a, b, i + 1, iterLimit)

diffAt(a, b, i) ==
  IF i = 0 THEN NoDiff ELSE [none |-> FALSE, lhs |-> a[i], rhs |-> b[i]]

\* the loop started at the second line
diffLines_FromSecond(a, b) == diffAt(a, b, firstDiff(a, b, 2, Min(Len(a), Len(b))))

diffLines(a, b) == diffAt(a, b, firstDiff(a, b, 1, Min(Len(a), Len(b))))

findDiffLine(l1, l2) == diffLines(splitlines(l1), splitlines(l2))

-----------------------------------------------------------------------------
\* PackageDiff.  A log line is a sequence of tokens; a deps log that could
\* not be loaded is None (none = TRUE).

startswith(line, tok) == Len(line) >= 1 /\ line[1] = tok

RECURSIVE indexFrom(_, _, _)
indexFrom(seq, x, i) ==
  IF i > Len(seq) THEN 0
  ELSE IF seq[i] = x THEN i
  ELSE indexFrom(seq, x, i + 1)

\* the place of the first x in seq, counted from 1, or 0
IndexOf(seq, x) == indexFrom(seq, x, 1)

\* s.split( x )[ 0 ]
Before(seq, x) ==
  IF IndexOf(seq, x) = 0 THEN seq ELSE SubSeq(seq, 1, IndexOf(seq, x) - 1)

\* what follows the first x
After(seq, x) == SubSeq(seq, IndexOf(seq, x) + 1, Len(seq))

\* re.match( r"depSig now \S* due to full: len=\d*=b'(.*)'$", logLine )
matchesDepSig(line) ==
  /\ Len(line) >= 6
  /\ line[1] = "depSig now"
  /\ line[3] = "due to full: len="
  /\ line[5] = "=b'"
  /\ line[Len(line)] = "'"

\* the escape sequence for a line break, as the log writes it
EscNL == "\\n"

\* bytes( payload, 'utf-8' ).decode( 'unicode_escape' )
unicodeEscape(payload) ==
  [i \in 1 .. Len(payload) |-> IF payload[i] = EscNL THEN NL ELSE payload[i]]

\* [err, sig]
getInstallSig(logLine) ==
  IF ~matchesDepSig(logLine) THEN [err |-> "AssertionError", sig |-> <<>>]
  ELSE [err |-> "", sig |-> unicodeEscape(SubSeq(logLine, 6, Len(logLine) - 1))]

\* sig.splitlines()[ 0 ]: [err, rpm]
getRpmFromInstallSig(sig) ==
  IF splitlines(sig) = <<>> THEN [err |-> "IndexError", rpm |-> <<>>]
  ELSE [err |-> "", rpm |-> splitlines(sig)[1]]

\* name.removesuffix( '-None' )
dropNoneEpoch(name) ==
  IF name # <<>> /\ name[Len(name)] = "-None" THEN SubSeq(name, 1, Len(name) - 1)
  ELSE name

\* lines 372-385: [err, pattern]
getDepsContentSigPattern(rpm, pkg) ==
  IF IndexOf(rpm, ":") = 0 THEN [err |-> "IndexError", pattern |-> <<>>]
  ELSE [err |-> "",
        pattern |-> <<"CALCULATING DEPSCONTENTSIG FOR">>
                    \o dropNoneEpoch(Before(rpm, ":"))
                    \o <<"-">>
                    \o Before(Before(After(rpm, ":"), ":"), "-")
                    \o <<"in the context of PACKAGE", pkg>>]

RECURSIVE scanEnd(_, _, _)
\* the while loop at lines 393-398; i and endIndex count from 0 as in the code
scanEnd(logLines, i, endIndex) ==
  IF i < Len(logLines)
  THEN IF startswith(logLines[i + 1], "depsContentSig now")
       THEN scanEnd(logLines, i + 1, i)
       ELSE endIndex
  ELSE endIndex

\* seq[ a : b ] with a, b counted from 0
PySlice(seq, a, b) == SubSeq(seq, a + 1, Min(b, Len(seq)))

\* startIndex is the place of the pattern counted from 1, which is the
\* code's logLines.index( pattern ) + 1 counted from 0
subLogFrom(logLines, startIndex) ==
  join(PySlice(logLines, startIndex, scanEnd(logLines, startIndex + 1, startIndex)))

\* lines 387-399: [err, text]
getDepsSubLog(log, pat) ==
  IF pat.err # "" THEN [err |-> pat.err, text |-> <<>>]
  ELSE IF log.none THEN [err |-> "AssertionError", text |-> <<>>]
  ELSE IF IndexOf(splitlines(log.text), pat.pattern) = 0
       THEN [err |-> "ValueError", text |-> <<>>]
  ELSE [err |-> "",
        text |-> subLogFrom(splitlines(log.text), IndexOf(splitlines(log.text), pat.pattern))]

Diag(class, pair) == [class |-> class, err |-> "", pair |-> pair]
Failed(e) == [class |-> "crash", err |-> e, pair |-> NoDiff]

depsDiag(refDepsLog, insDepsLog) ==
  IF refDepsLog.err # "" THEN Failed(refDepsLog.err)
  ELSE IF insDepsLog.err # "" THEN Failed(insDepsLog.err)
  ELSE Diag("DepsContentSigChanged", findDiffLine(refDepsLog.text, insDepsLog.text))

\* lines 401-410
analyzeDepsContentSig(refRpm, insRpm, rdeplog, ideplog, pkg) ==
  depsDiag(getDepsSubLog(rdeplog, getDepsContentSigPattern(refRpm, pkg)),
           getDepsSubLog(ideplog, getDepsContentSigPattern(insRpm, pkg)))

\* lines 421-432: the two payloads name the same rpm; pair is
\* findDiffLine( rsig, isig )
sameRpmDiag(pair, rpm, rdeplog, ideplog, pkg) ==
  IF pair.none THEN Failed("AttributeError")
  ELSE IF startswith(pair.lhs, "depsContentSig:") /\ startswith(pair.rhs, "depsContentSig:")
  THEN analyzeDepsContentSig(rpm, rpm, rdeplog, ideplog, pkg)
  ELSE Diag("ContentChangedInPackage", pair)

rpmDiag(refRpm, insRpm, rsig, isig, rdeplog, ideplog, pkg) ==
  IF refRpm.err # "" THEN Failed(refRpm.err)
  ELSE IF insRpm.err # "" THEN Failed(insRpm.err)
  ELSE IF refRpm.rpm # insRpm.rpm
  THEN Diag("PackageAddedOrRemoved", [none |-> FALSE, lhs |-> refRpm.rpm, rhs |-> insRpm.rpm])
  ELSE sameRpmDiag(findDiffLine(rsig, isig), refRpm.rpm, rdeplog, ideplog, pkg)

\* lines 412-432
analyzeInstallSigDiff(rsig, isig, rdeplog, ideplog, pkg) ==
  rpmDiag(getRpmFromInstallSig(rsig), getRpmFromInstallSig(isig), rsig, isig,
          rdeplog, ideplog, pkg)

sigDiag(refInstallSig, insInstallSig, rdeplog, ideplog, pkg) ==
  IF refInstallSig.err # "" THEN Failed(refInstallSig.err)
  ELSE IF insInstallSig.err # "" THEN Failed(insInstallSig.err)
  ELSE analyzeInstallSigDiff(refInstallSig.sig, insInstallSig.sig, rdeplog, ideplog, pkg)

\* lines 436-452, pair being findDiffLine( self.rlog, self.ilog )
pairDiag(pair, rdeplog, ideplog, pkg) ==
  IF pair.none THEN Diag("NothingToAnalyze", pair)
  ELSE IF startswith(pair.lhs, "buildhash now") /\ startswith(pair.rhs, "buildhash now")
  THEN Diag("SettingsOrContentDirect", pair)
  ELSE sigDiag(getInstallSig(pair.lhs), getInstallSig(pair.rhs), rdeplog, ideplog, pkg)

\* PackageDiff.analyze
analyze(rlog, ilog, rdeplog, ideplog, pkg) ==
  pairDiag(findDiffLine(rlog, ilog), rdeplog, ideplog, pkg)

-----------------------------------------------------------------------------
\* Properties of the summary runs

\* the packages the loop at line 274 iterates for process p
Iterated(p) == Slice(ihi[p].pkgDepOrder, iterLimitOf(pkgLimit[p], ihi[p]))

InBoth(p, pkg) ==
  pkg \in DOMAIN ihi[p].buildhash /\ pkg \in DOMAIN rhi[p].buildhash

\* the comparison loop of p's run has run: to its end, or to the TypeError
LoopRan(p) == pc[p] = "done" \/ (pc[p] = "crashed" /\ out[p].err = "TypeError")

\* the packages whose iteration the loop reached
Processed(p) ==
  IF pc[p] = "done" THEN Iterated(p)
  ELSE LET last == out[p].displayList[Len(out[p].displayList)][1]
           k == CHOOSE i \in 1 .. Len(Iterated(p)) :
                  /\ Iterated(p)[i] = last
                  /\ \A j \in 1 .. (i - 1) : Iterated(p)[j] # last
       IN SubSeq(Iterated(p), 1, k)

Considered(p) == {k \in 1 .. Len(Processed(p)) : InBoth(p, Processed(p)[k])}

Differs(p, pkg, k) == ihi[p].buildhash[pkg][k] # rhi[p].buildhash[pkg][k]

Entries(p, pkg) ==
  {k \in 1 .. Len(out[p].displayList) : out[p].displayList[k][1] = pkg}

HasEntry(p, pkg, reason) == <<pkg, reason>> \in
  {out[p].displayList[k] : k \in 1 .. Len(out[p].displayList)}

\* C1: every summarization run reports counts with
\* considered = accounted + skipped and accounted = matched + mismatched,
\* accounted being the iterated packages with a record in both snapshots and
\* skipped those missing from at least one, for every package limit.
C1_CountsBalance ==
  \A p \in Procs : pc[p] = "done" =>
    LET it == Iterated(p)
        both == {k \in 1 .. Len(it) : InBoth(p, it[k])}
        skipped == {k \in 1 .. Len(it) : ~InBoth(p, it[k])}
    IN /\ out[p].printed
       /\ out[p].accounted = Cardinality(both)
       /\ out[p].considered = out[p].accounted + Cardinality(skipped)
       /\ out[p].accounted = out[p].matchCount + out[p].mismatched
       /\ out[p].matching = out[p].matchCount

\* C2 as claimed: a considered package whose content hashes differ is listed
\* as ContentChanged whatever its deps and final hashes are, and a package
\* whose final hashes are equal is never listed.
C2_ContentAlwaysListed ==
  \A p \in Procs : LoopRan(p) =>
    \A k \in Considered(p) :
      LET pkg == Processed(p)[k] IN
      /\ Differs(p, pkg, "content") => HasEntry(p, pkg, reasonVerbose("content"))
      /\ ~Differs(p, pkg, "final") => Entries(p, pkg) = {}

\* C2 as amended: a considered package whose final hashes differ and whose
\* content hashes differ is listed as ContentChanged whatever its deps hashes
\* are; a package whose final hashes are equal is never listed, also when
\* its content hashes differ; and no other package is listed as ContentChanged.
C2_ContentListedWhenFinalDiffers ==
  \A p \in Procs : LoopRan(p) =>
    /\ \A k \in Considered(p) :
         LET pkg == Processed(p)[k] IN
         /\ (Differs(p, pkg, "final") /\ Differs(p, pkg, "content"))
              => (HasEntry(p, pkg, reasonVerbose("content")) /\ Cardinality(Entries(p, pkg)) = 1)
         /\ ~Differs(p, pkg, "final") => Entries(p, pkg) = {}
    /\ \A k \in 1 .. Len(out[p].displayList) :
         LET e == out[p].displayList[k] IN
         /\ InBoth(p, e[1])
         /\ Differs(p, e[1], "final")
         /\ e[2] = reasonVerbose("content") <=> Differs(p, e[1], "content")

\* a finished run listed as ContentChanged a package whose final, content and
\* deps hashes all differ
C2_Witness ==
  \E p \in Procs : pc[p] = "done" /\
    \E k \in Considered(p) :
      LET pkg == Processed(p)[k] IN
      /\ Differs(p, pkg, "final") /\ Differs(p, pkg, "content") /\ Differs(p, pkg, "deps")
      /\ HasEntry(p, pkg, reasonVerbose("content"))

\* C3: a considered package with differing final hashes and equal content
\* and deps hashes gets exactly one (package, SettingsChanged) entry and the
\* run goes on to its end and reports the counts.
C3_SettingsChangedCompletes ==
  \A p \in Procs : LoopRan(p) =>
    \A k \in Considered(p) :
      LET pkg == Processed(p)[k] IN
      (Differs(p, pkg, "final") /\ ~Differs(p, pkg, "content") /\ ~Differs(p, pkg, "deps"))
        => /\ HasEntry(p, pkg, reasonVerbose("final"))
           /\ Cardinality(Entries(p, pkg)) = 1
           /\ pc[p] = "done"
           /\ out[p].printed

Range(seq) == {seq[k] : k \in 1 .. Len(seq)}

KeysWithin(hi) ==
  DOMAIN hi.buildhash \subseteq (Range(hi.pkgDepOrder) \cap hi.hashLogs)

\* every snapshot in memory and every snapshot stored in the cache
SnapshotKeysWithin ==
  /\ \A p \in Procs : KeysWithin(rhi[p]) /\ KeysWithin(ihi[p])
  /\ \A f \in Paths : cache[f].data # <<>> => KeysWithin(pickleLoads(cache[f].data))

SummarizeKeepsKeys ==
  \A p \in Procs : pc[p] = "summarize" =>
    /\ DOMAIN rhi'[p].buildhash = DOMAIN rhi[p].buildhash
    /\ DOMAIN ihi'[p].buildhash = DOMAIN ihi[p].buildhash

\* C4: in every state every key of a snapshot's hash mapping is in its
\* dependency-order list and in its set of hash logs, and a summarization
\* run adds no key to either snapshot's mapping.
C4_KeysWithinOrderAndLogs == []SnapshotKeysWithin /\ [][SummarizeKeepsKeys]_vars

\* a run that loaded both snapshots from the cache has compared them; one has
\* records, and the inspect order holds a package the reference has no record for
C4_Witness ==
  \E p \in Procs :
    /\ pc[p] = "done"
    /\ out[p].cached = {RefId, InsId}
    /\ out[p].accounted > 0
    /\ \E pkg \in Range(Iterated(p)) :
         pkg \in DOMAIN ihi[p].buildhash /\ pkg \notin DOMAIN rhi[p].buildhash

\* C5: the cache entry of a key is written once, and no run reads an entry
\* that exists but is not yet the complete pickle of a populated snapshot.
C5_WrittenOnceAtomically ==
  /\ \A f \in Paths : writes[f] <= 1
  /\ \A f \in Paths : cache[f].data # <<>> => pickleLoads(cache[f].data).populated
  /\ \A p \in Procs : out[p].err # "EOFError"

\* the packages populateBuildhashes looks up for a snapshot of this remote
Extracted(hi, limit) ==
  {pkg \in Range(Slice(hi.pkgDepOrder, IF limit = None THEN Len(hi.pkgDepOrder) ELSE limit)) :
     pkg \in hi.hashLogs}

FatalLookup(rem, pkg) ==
  tacGrep(rem, pkg, "content").exit # 0 \/ tacGrep(rem, pkg, "final").exit # 0

ExtractionRule(hi, rem, limit) ==
  /\ \A pkg \in DOMAIN hi.buildhash :
       ("deps" \in DOMAIN hi.buildhash[pkg] /\ tacGrep(rem, pkg, "deps").exit # 0)
         => hi.buildhash[pkg]["deps"] = "NA"
  /\ hi.populated =>
       \A pkg \in Extracted(hi, limit) :
         /\ pkg \in DOMAIN hi.buildhash
         /\ DOMAIN hi.buildhash[pkg] = {"content", "deps", "final"}
         /\ ~FatalLookup(rem, pkg)
  /\ (hi.pkgDepOrder # <<>> /\ \E pkg \in Extracted(hi, limit) : FatalLookup(rem, pkg))
       => /\ ~hi.populated
          /\ ~cache[pickleFilepath(hi.bi, limit)].exists

\* C6: a failing deps lookup leaves NA in the deps slot and extraction goes
\* on with the final marker and the next packages; a failing content or
\* final lookup ends the collection: the snapshot is not marked populated
\* and no cache file is written for its key.
C6_DepsToleratedOthersFatal ==
  \A p \in Procs :
    /\ ExtractionRule(rhi[p], remote[RefId], pkgLimit[p])
    /\ ExtractionRule(ihi[p], remote[InsId], pkgLimit[p])

\* the reference collection went past a failed deps lookup of its first
\* package and was stored; the inspect collection died on a fatal lookup
C6_Witness ==
  \E p \in Procs :
    /\ pc[p] = "crashed" /\ out[p].err = "RunCmdErr"
    /\ rhi[p].populated
    /\ Len(rhi[p].pkgDepOrder) > 1
    /\ LET first == rhi[p].pkgDepOrder[1] IN
         /\ tacGrep(remote[RefId], first, "deps").exit # 0
         /\ first \in DOMAIN rhi[p].buildhash
         /\ rhi[p].buildhash[first]["deps"] = "NA"
         /\ "final" \in DOMAIN rhi[p].buildhash[first]
         /\ rhi[p].pkgDepOrder[2] \in DOMAIN rhi[p].buildhash
    /\ cache[pickleFilepath(rbi, pkgLimit[p])].data # <<>>
    /\ ~ihi[p].populated
    /\ ihi[p].pkgDepOrder # <<>>
    /\ \E pkg \in Extracted(ihi[p], pkgLimit[p]) : FatalLookup(remote[InsId], pkg)
    /\ ~cache[pickleFilepath(ibi, pkgLimit[p])].exists

-----------------------------------------------------------------------------
\* findDiffLine on its own

\* the variables of the summary runs, at rest
NoRuns ==
  /\ remote = <<>> /\ writes = <<>> /\ pc = <<>> /\ pkgLimit = <<>>
  /\ rhi = <<>> /\ ihi = <<>> /\ out = <<>>

RECURSIVE TextsUpTo(_, _)
\* the texts of at most n tokens over the alphabet
TextsUpTo(alphabet, n) ==
  IF n = 0 THEN {<<>>}
  ELSE TextsUpTo(alphabet, n - 1)
       \cup {Append(t, c) : t \in TextsUpTo(alphabet, n - 1), c \in alphabet}

DiffTexts == TextsUpTo({"a", "b", NL}, MaxDiffLen)

InitDiff ==
  /\ NoRuns
  /\ cache = <<>>
  /\ \E l1 \in DiffTexts, l2 \in DiffTexts :
       an = [op |-> "findDiffLine", l1 |-> l1, l2 |-> l2, called |-> FALSE, res |-> NoDiff]

FindDiffLine ==
  /\ an.op = "findDiffLine" /\ ~an.called
  /\ an' = [an EXCEPT !.called = TRUE, !.res = findDiffLine(an.l1, an.l2)]
  /\ UNCHANGED <<remote, cache, writes, pc, pkgLimit, rhi, ihi, out>>

SpecDiff == InitDiff /\ [][FindDiffLine]_vars

IsPrefix(a, b) == Len(a) <= Len(b) /\ SubSeq(b, 1, Len(a)) = a

\* C8: findDiffLine returns no divergence for identical logs and for logs
\* one of which is a strict line-prefix of the other, and the pair of lines
\* at index k for logs whose lines agree below k and differ at k.
C8_FirstDivergingPair ==
  (an.op = "findDiffLine" /\ an.called) =>
    LET a == splitlines(an.l1)
        b == splitlines(an.l2)
    IN /\ an.l1 = an.l2 => an.res = NoDiff
       /\ (IsPrefix(a, b) \/ IsPrefix(b, a)) => an.res = NoDiff
       /\ \A k \in 1 .. Min(Len(a), Len(b)) :
            (a[k] # b[k] /\ \A j \in 1 .. (k - 1) : a[j] = b[j])
              => an.res = [none |-> FALSE, lhs |-> a[k], rhs |-> b[k]]

\* two logs of two lines each that agree on the first line and differ on the second
C8_Witness ==
  /\ an.op = "findDiffLine" /\ an.called
  /\ Len(splitlines(an.l1)) = 2 /\ Len(splitlines(an.l2)) = 2
  /\ splitlines(an.l1)[1] = splitlines(an.l2)[1]
  /\ ~an.res.none
  /\ an.res.lhs = splitlines(an.l1)[2] /\ an.res.rhs = splitlines(an.l2)[2]
  /\ an.res.lhs # an.res.rhs

-----------------------------------------------------------------------------
\* The cache on its own: HashInfo.pickle and LoadHashInfo

\* HashInfo.pickle( pkgLimit ), run to its end
pickle(files, hi, limit) ==
  dumpTo(openWb(files, pickleFilepath(hi.bi, limit)), pickleFilepath(hi.bi, limit), hi)

\* what the build-tracking service may answer: the two builds, and build
\* RefId as another project reports it
Descriptors == {rbi, ibi, [rbi EXCEPT !.project = "other"]}

CachePaths == {pickleFilepath(d, l) : d \in Descriptors, l \in Limits}

\* populated snapshots, as populateAll leaves them
PopulatedSnapshots(limit) ==
  {populateAll(HashInfo(d), rem, limit).hi :
     d \in Descriptors,
     rem \in {r \in FaultyRemotes : r.dir /\ populateAll(HashInfo(rbi), r, limit).err = ""}}

InitCache ==
  /\ NoRuns
  /\ cache = [f \in CachePaths |-> NoFile]
  /\ \E limit \in Limits : \E hi \in PopulatedSnapshots(limit) :
       an = [op |-> "cache", snap |-> hi, limit |-> limit, stored |-> FALSE,
             loaded |-> FALSE, bi |-> hi.bi, pkgLimit |-> limit, hit |-> FALSE,
             res |-> Ok(HashInfo(hi.bi))]

Store ==
  /\ an.op = "cache" /\ ~an.stored
  /\ cache' = pickle(cache, an.snap, an.limit)
  /\ an' = [an EXCEPT !.stored = TRUE]
  /\ UNCHANGED <<remote, writes, pc, pkgLimit, rhi, ihi, out>>

Load(bi, limit) ==
  /\ an.op = "cache"
  /\ an' = [an EXCEPT !.loaded = TRUE, !.bi = bi, !.pkgLimit = limit,
                       !.hit = an.stored, !.res = LoadHashInfo(cache, bi, limit)]
  /\ UNCHANGED <<remote, cache, writes, pc, pkgLimit, rhi, ihi, out>>

CacheNext ==
  \/ Store
  \/ \E bi \in Descriptors, limit \in Limits : Load(bi, limit)

SpecCache == InitCache /\ [][CacheNext]_vars

\* the load asked for the key the snapshot was stored under
SameKey == an.bi.buildId = an.snap.bi.buildId /\ an.pkgLimit = an.limit

\* C7: a load with the descriptor and limit a snapshot was stored under
\* returns a snapshot equal to it in every field; a load with a key nothing
\* was stored under returns an empty snapshot that is not populated; a load
\* that finds an entry stored with another descriptor fails.
C7_StoreLoadRoundTrip ==
  (an.op = "cache" /\ an.loaded) =>
    /\ (an.hit /\ an.bi = an.snap.bi /\ an.pkgLimit = an.limit)
         => (an.res.err = "" /\ an.res.hi = an.snap
             /\ an.res.hi.bi = an.snap.bi
             /\ an.res.hi.hashLogs = an.snap.hashLogs
             /\ an.res.hi.pkgDepOrder = an.snap.pkgDepOrder
             /\ an.res.hi.buildhash = an.snap.buildhash
             /\ an.res.hi.populated = an.snap.populated)
    /\ (~an.hit \/ ~SameKey)
         => (an.res.err = "" /\ an.res.hi = HashInfo(an.bi) /\ ~an.res.hi.populated)
    /\ (an.hit /\ SameKey /\ an.bi # an.snap.bi) => an.res.err = "AssertionError"

\* a snapshot with records, one deps slot NA, came back from the cache
C7_Witness ==
  /\ an.op = "cache" /\ an.loaded /\ an.hit
  /\ an.bi = an.snap.bi /\ an.pkgLimit = an.limit
  /\ an.snap.populated
  /\ \E pkg \in DOMAIN an.snap.buildhash : an.snap.buildhash[pkg]["deps"] = "NA"
  /\ an.res.hi.buildhash = an.snap.buildhash

-----------------------------------------------------------------------------
\* PackageDiff.analyze on its own

AnalyzedPkg == "pkg"

RpmA == <<"rpmA", "-None", ":", "1.0", "-", "1">>
RpmB == <<"rpmB", ":", "2.0", "-", "3">>

MarkerA == <<"CALCULATING DEPSCONTENTSIG FOR", "rpmA", "-", "1.0",
             "in the context of PACKAGE", AnalyzedPkg>>
MarkerB == <<"CALCULATING DEPSCONTENTSIG FOR", "rpmB", "-", "2.0",
             "in the context of PACKAGE", AnalyzedPkg>>

SubLines ==
  {<<"depsContentSig:", "x">>, <<"depsContentSig:", "y">>, <<"files:", "f">>, <<"files:", "g">>}

RECURSIVE SeqsUpTo(_, _)
\* the sequences of at most n members of S
SeqsUpTo(S, n) ==
  IF n = 0 THEN {<<>>}
  ELSE SeqsUpTo(S, n - 1) \cup {Append(q, x) : q \in SeqsUpTo(S, n - 1), x \in S}

RECURSIVE escapedJoin(_)
\* the payload as the log holds it: the lines with the escape sequence between them
escapedJoin(lines) ==
  IF lines = <<>> THEN <<>>
  ELSE IF Len(lines) = 1 THEN lines[1]
  ELSE lines[1] \o <<EscNL>> \o escapedJoin(Tail(lines))

Payloads ==
  {escapedJoin(<<rpm>> \o subs) : rpm \in {RpmA, RpmB}, subs \in SeqsUpTo(SubLines, MaxSubLines)}
  \cup {<<>>}

BuildhashLine(h) == <<"buildhash now", h>>
DepSigLine(h, payload) ==
  <<"depSig now", h, "due to full: len=", "10", "=b'">> \o payload \o <<"'">>

LastLines ==
  {BuildhashLine("AAA"), BuildhashLine("BBB"), <<"depSig now", "X", "rebuilt">>}
  \cup {DepSigLine(h, pl) : h \in {"X", "Y"}, pl \in Payloads}

DcsLine(h) == <<"depsContentSig now", h>>

\* a dependency-signature log with a block for each rpm
DepsLogOf(h) ==
  [none |-> FALSE,
   text |-> join(<<MarkerA, DcsLine("a"), DcsLine(h), DcsLine("c"), <<"done">>,
                   MarkerB, DcsLine("a"), DcsLine("b"), DcsLine(h), <<"done">>>>)]

NoLog == [none |-> TRUE, text |-> <<>>]

InitAnalyze ==
  /\ NoRuns
  /\ cache = <<>>
  /\ \E l1 \in LastLines, l2 \in LastLines, ideplog \in {DepsLogOf("i"), NoLog} :
       an = [op |-> "analyze",
             rlog |-> join(<<BuildhashLine("000"), l1>>),
             ilog |-> join(<<BuildhashLine("000"), l2>>),
             rdeplog |-> DepsLogOf("r"), ideplog |-> ideplog,
             pkg |-> AnalyzedPkg, called |-> FALSE, diag |-> Failed("")]

Analyze ==
  /\ an.op = "analyze" /\ ~an.called
  /\ an' = [an EXCEPT !.called = TRUE,
                       !.diag = analyze(an.rlog, an.ilog, an.rdeplog, an.ideplog, an.pkg)]
  /\ UNCHANGED <<remote, cache, writes, pc, pkgLimit, rhi, ihi, out>>

SpecAnalyze == InitAnalyze /\ [][Analyze]_vars

\* the first diverging pair of the two main logs
MainPair == diffLines(splitlines(an.rlog), splitlines(an.ilog))

\* a line of the form depSig now <hash> due to full: len=<n>=b'<payload>'
\* whose payload has a first line
WellFormedDepSig(line) ==
  matchesDepSig(line) /\ splitlines(unicodeEscape(SubSeq(line, 6, Len(line) - 1))) # <<>>

PayloadLines(line) == splitlines(unicodeEscape(SubSeq(line, 6, Len(line) - 1)))

BothBuildhash ==
  startswith(MainPair.lhs, "buildhash now") /\ startswith(MainPair.rhs, "buildhash now")

\* C9: for main logs whose first diverging lines are well-formed, analyze
\* ends in one classification: SettingsOrContentDirect iff both lines begin
\* with "buildhash now"; else PackageAddedOrRemoved iff the identity tokens
\* differ; else DepsContentSigChanged when the first diverging sub-lines both
\* start with "depsContentSig:" and ContentChangedInPackage otherwise, one of
\* the two also when the payloads have no diverging line.
C9_OneTerminalClassification ==
  (/\ an.op = "analyze" /\ an.called
   /\ ~an.rdeplog.none /\ ~an.ideplog.none
   /\ ~MainPair.none
   /\ \/ BothBuildhash
      \/ WellFormedDepSig(MainPair.lhs) /\ WellFormedDepSig(MainPair.rhs))
  => /\ an.diag.err = ""
     /\ an.diag.class = "SettingsOrContentDirect" <=> BothBuildhash
     /\ ~BothBuildhash =>
          LET r == PayloadLines(MainPair.lhs)
              i == PayloadLines(MainPair.rhs)
              sub == diffLines(r, i)
          IN /\ an.diag.class = "PackageAddedOrRemoved" <=> r[1] # i[1]
             /\ r[1] = i[1] =>
                  IF ~sub.none /\ startswith(sub.lhs, "depsContentSig:")
                     /\ startswith(sub.rhs, "depsContentSig:")
                  THEN an.diag.class = "DepsContentSigChanged"
                  ELSE an.diag.class = "ContentChangedInPackage"

-----------------------------------------------------------------------------
\* PackageDiff.analyzeDepsContentSig on its own

BlockLines == {DcsLine("a"), DcsLine("b"), <<"installSig now", "s">>}

DepsLogs(header) ==
  {[none |-> FALSE, text |-> join(header \o <<MarkerA>> \o body)] :
     body \in SeqsUpTo(BlockLines, MaxBlock)}

InitSubLog ==
  /\ NoRuns
  /\ cache = <<>>
  /\ \E rdeplog \in DepsLogs(<<<<"deps of", AnalyzedPkg>>>>), ideplog \in DepsLogs(<<>>) :
       an = [op |-> "analyzeDepsContentSig", rpm |-> RpmA, pkg |-> AnalyzedPkg,
             rdeplog |-> rdeplog, ideplog |-> ideplog, called |-> FALSE,
             refDepsLog |-> [err |-> "", text |-> <<>>],
             insDepsLog |-> [err |-> "", text |-> <<>>],
             diag |-> Failed("")]

AnalyzeDepsContentSig ==
  /\ an.op = "analyzeDepsContentSig" /\ ~an.called
  /\ an' = [an EXCEPT
       !.called = TRUE,
       !.refDepsLog = getDepsSubLog(an.rdeplog, getDepsContentSigPattern(an.rpm, an.pkg)),
       !.insDepsLog = getDepsSubLog(an.ideplog, getDepsContentSigPattern(an.rpm, an.pkg)),
       !.diag = analyzeDepsContentSig(an.rpm, an.rpm, an.rdeplog, an.ideplog, an.pkg)]
  /\ UNCHANGED <<remote, cache, writes, pc, pkgLimit, rhi, ihi, out>>

SpecSubLog == InitSubLog /\ [][AnalyzeDepsContentSig]_vars

RECURSIVE runFrom(_, _)
\* the lines from place k on (counted from 1) up to the first that does not
\* begin with "depsContentSig now"
runFrom(lines, k) ==
  IF k > Len(lines) \/ ~startswith(lines[k], "depsContentSig now") THEN <<>>
  ELSE <<lines[k]>> \o runFrom(lines, k + 1)

\* the maximal run of depsContentSig lines right after the marker
RunAfterMarker(log) ==
  runFrom(splitlines(log.text), IndexOf(splitlines(log.text), MarkerA) + 1)

\* C10: the block getDepsSubLog extracts is the maximal contiguous run of
\* lines beginning "depsContentSig now" right after the marker, its last line
\* included and a non-matching first line excluded, and the pair reported as
\* DepsContentSigChanged is the first diverging pair of the two runs.
C10_BlockIsMaximalRun ==
  (an.op = "analyzeDepsContentSig" /\ an.called) =>
    /\ an.refDepsLog = [err |-> "", text |-> join(RunAfterMarker(an.rdeplog))]
    /\ an.insDepsLog = [err |-> "", text |-> join(RunAfterMarker(an.ideplog))]
    /\ an.diag = Diag("DepsContentSigChanged",
                      diffLines(RunAfterMarker(an.rdeplog), RunAfterMarker(an.ideplog)))

====
